---- MODULE Spec2Model ----
(***************************************************************************)
(* Review lifecycle of services/reviewService.js: one review, its Feedback *)
(* rows, the status recomputation updateReviewStatus, and the handlers     *)
(* that reach it (the /approve command, the approve button, the feedback   *)
(* modal, and direct calls of the exported service functions).  Every      *)
(* await on the store is one step, so concurrent calls interleave there.   *)
(* Further parts: the manual override, store and notification failures,   *)
(* getReviews over a table of reviews, the reviewId of createReview, and   *)
(* the hourly task reminder job of services/taskService.js.                *)
(***************************************************************************)
EXTENDS Integers, Sequences, FiniteSets, TLC

\* ---------------------------------------------------------------- bounds
MaxFeedback == 3     \* Feedback rows stored for the review
MaxTime == 2         \* clock readings 1..MaxTime (equal readings = same ms)

\* ---------------------------------------------------------- value domains
Users == {"A", "B", "X"}
ReviewerLists == {{"A"}, {"A", "B"}}
Creators == {"A", "X"}
validStatuses == {"draft", "design", "in_review", "approved", "published"}
InitialStatusInputs == validStatuses \cup {"bogus"}
FeedbackStatuses == {"approved", "requested_changes"}
Procs == {1, 2}       \* handler invocations that may be in flight together
Times == 1..MaxTime
NoTime == 0          \* completedAt: null
NoFeedback == [reviewerId |-> "none", status |-> "none", createdAt |-> 0]

VARIABLES
    created,      \* the Review row exists
    reviewerIds,  \* Review.reviewerIds
    creatorId,    \* Review.creatorId
    status,       \* Review.status
    completedAt,  \* Review.completedAt (NoTime = null)
    feedbacks,    \* Feedback rows of the review, in insertion order
    now,          \* the clock read by new Date()
    pc,           \* per call: position in the handler
    call,         \* per call: entry path, user, feedback status, client
    snap,         \* per call: the review as read by updateReviewStatus (status,
                  \* completedAt, and how many Feedback rows the read returned)
    ret,          \* per call: what the call computed and returned, the status
                  \* and completedAt getReviewById gave it (prev), whether it
                  \* inserted a row, and the store access that failed, if any
    sent,         \* per call: notification attempts, by kind, and whether
                  \* an attempt threw
    solo,         \* per call: no other call was in flight during it
    reviews,      \* the Review table where several reviews matter: per id the
                  \* reviewId, client, status, createdAt, completedAt and the
                  \* createdAt of its newest Feedback row
    listing,      \* the last getReviews call: filters, result, whether made
    creating,     \* per createReview call: position, generated reviewId, result
    reminderSent, \* per task: Task.reminderSent
    reminders,    \* per task: reminder messages posted to the assignee
    job,          \* per reminder run: position and the tasks it still has to do
    runNo         \* reminder runs started so far

vars == <<created, reviewerIds, creatorId, status, completedAt, feedbacks, now,
          pc, call, snap, ret, sent, solo, reviews, listing, creating,
          reminderSent, reminders, job, runNo>>

\* The state outside the single review and its calls.
\* The task reminder job.
reminderVars == <<reminderSent, reminders, job, runNo>>

other == <<reviews, listing, creating, reminderVars>>

store == <<created, reviewerIds, creatorId, status, completedAt, feedbacks>>

NoCall == [entry |-> "none", user |-> "none", fbStatus |-> "none", client |-> FALSE]
NoSnap == [status |-> "none", rows |-> 0, completedAt |-> NoTime]
NoRet == [result |-> "none", newStatus |-> "none", statusChanged |-> FALSE,
          wrote |-> FALSE, status |-> "none", inserted |-> FALSE,
          failedAt |-> "none", prev |-> "none", prevCompletedAt |-> NoTime]
NoSent == [completion |-> 0, creatorSvc |-> 0, channelHdl |-> 0, creatorHdl |-> 0,
           threw |-> FALSE]

\* ------------------------------------------------- updateReviewStatus, pure
\* The forEach of lines 433-439: keep a reviewer's entry unless a scanned one
\* is strictly newer.
\* Variant: the comparison reversed, so the oldest entry is kept.
RECURSIVE reviewerFeedbackOldest(_, _, _)
reviewerFeedbackOldest(fbs, i, acc) ==
    IF i > Len(fbs) THEN acc
    ELSE LET f == fbs[i]
             cur == acc[f.reviewerId]
         IN reviewerFeedbackOldest(fbs, i + 1,
                IF cur = NoFeedback \/ f.createdAt < cur.createdAt
                THEN [acc EXCEPT ![f.reviewerId] = f]
                ELSE acc)

RECURSIVE reviewerFeedbackFrom(_, _, _)
reviewerFeedbackFrom(fbs, i, acc) ==
    IF i > Len(fbs) THEN acc
    ELSE LET f == fbs[i]
             cur == acc[f.reviewerId]
         IN reviewerFeedbackFrom(fbs, i + 1,
                IF cur = NoFeedback \/ f.createdAt > cur.createdAt
                THEN [acc EXCEPT ![f.reviewerId] = f]
                ELSE acc)

reviewerFeedback(fbs) ==
    reviewerFeedbackFrom(fbs, 1, [u \in Users |-> NoFeedback])

\* Variant: every stored row must be approved, superseded ones included.
allApprovedEveryRow(rids, fbs) ==
    /\ \A r \in rids : \E i \in 1..Len(fbs) : fbs[i].reviewerId = r
    /\ \A i \in 1..Len(fbs) : fbs[i].status = "approved"

allApproved(rids, fbs) ==
    \A r \in rids : reviewerFeedback(fbs)[r] # NoFeedback
                    /\ reviewerFeedback(fbs)[r].status = "approved"

someRequestedChanges(fbs) ==
    \E u \in Users : reviewerFeedback(fbs)[u] # NoFeedback
                     /\ reviewerFeedback(fbs)[u].status = "requested_changes"

\* Variant: a change request only reopens an approved review.
newStatusReopenOnly(cur, rids, fbs) ==
    IF allApproved(rids, fbs) /\ cur = "in_review" THEN "approved"
    ELSE IF someRequestedChanges(fbs) /\ cur = "approved" THEN "in_review"
    ELSE cur

\* Lines 446-456: the pair (newStatus, statusChanged).
newStatus(cur, rids, fbs) ==
    IF allApproved(rids, fbs) /\ cur = "in_review" THEN "approved"
    ELSE IF someRequestedChanges(fbs) THEN "in_review"
    ELSE cur

statusChanged(cur, rids, fbs) ==
    IF allApproved(rids, fbs) /\ cur = "in_review" THEN TRUE
    ELSE IF someRequestedChanges(fbs) THEN TRUE
    ELSE FALSE

\* ------------------------------------------------------------------- Init
TaskIds == {1, 2}     \* tasks with a deadline, not completed
Runs == {1, 2}        \* reminder runs that may be in flight together
NoJob == [pc |-> "idle", todo |-> <<>>]

\* No reminder sent, no run started.
InitReminders ==
    /\ reminderSent = [k \in TaskIds |-> FALSE]
    /\ reminders = [k \in TaskIds |-> 0]
    /\ job = [r \in Runs |-> NoJob]
    /\ runNo = 0

Creations == {1, 2}   \* createReview calls that may be in flight together
NoCreation == [pc |-> "idle", reviewId |-> 0, result |-> "none"]
NoFilters == [client |-> "none", status |-> "none", activitySince |-> NoTime]
NoListing == [filters |-> NoFilters, result |-> <<>>, made |-> FALSE]

\* Nothing else is stored and nothing has been listed.
InitOther ==
    /\ reviews = <<>>
    /\ listing = NoListing
    /\ creating = [c \in Creations |-> NoCreation]
    /\ InitReminders

\* No review, no call.
InitCalls ==
    /\ created = FALSE
    /\ reviewerIds = {}
    /\ creatorId = "none"
    /\ status = "none"
    /\ completedAt = NoTime
    /\ feedbacks = <<>>
    /\ now = 1
    /\ pc = [p \in Procs |-> "idle"]
    /\ call = [p \in Procs |-> NoCall]
    /\ snap = [p \in Procs |-> NoSnap]
    /\ ret = [p \in Procs |-> NoRet]
    /\ sent = [p \in Procs |-> NoSent]
    /\ solo = [p \in Procs |-> TRUE]

Init == InitCalls /\ InitOther

\* ---------------------------------------------------------------- actions
\* new Date(): the reading is the last one or the next one.
Clock(t) == t \in {now, now + 1} /\ t <= MaxTime

\* Variant: the initial status is stored as given.
initialStatusAsGiven(st) == st

\* createReview, lines 111-115: an invalid initialStatus becomes in_review.
validInitialStatus(st) == IF st \in validStatuses THEN st ELSE "in_review"

\* createReview, lines 108-159: an invalid initialStatus becomes in_review;
\* completedAt is not part of the created row.
createReview(rids, cid, initialStatus) ==
    /\ ~created
    /\ created' = TRUE
    /\ reviewerIds' = rids
    /\ creatorId' = cid
    /\ status' = validInitialStatus(initialStatus)
    /\ completedAt' = NoTime
    /\ UNCHANGED <<feedbacks, now, pc, call, snap, ret, sent, solo, other>>

InFlight(q) == pc[q] \notin {"idle", "done"}

\* A call starts in a free slot: it is solo while no other call is in flight,
\* and a call in flight stops being solo.
Enter(p, entry, u, st, client) ==
    /\ pc[p] \in {"idle", "done"}
    /\ call' = [call EXCEPT ![p] = [entry |-> entry, user |-> u, fbStatus |-> st,
                                    client |-> client]]
    /\ solo' = [q \in Procs |->
                  IF q = p THEN \A o \in Procs \ {p} : ~InFlight(o)
                  ELSE IF InFlight(q) THEN FALSE ELSE solo[q]]
    /\ snap' = [snap EXCEPT ![p] = NoSnap]
    /\ sent' = [sent EXCEPT ![p] = NoSent]
    /\ UNCHANGED other

\* The call ends before it writes to the store.
Refuse(p, why) ==
    /\ pc' = [pc EXCEPT ![p] = "done"]
    /\ ret' = [ret EXCEPT ![p] = [NoRet EXCEPT !.result = why]]
    /\ UNCHANGED <<store, now>>

\* prisma.feedback.create (lines 310-319 and 364-374), createdAt: new Date();
\* updateReviewStatus runs next.
InsertFeedback(p, u, st, t) ==
    /\ Len(feedbacks) < MaxFeedback
    /\ Clock(t)
    /\ now' = t
    /\ feedbacks' = Append(feedbacks,
                           [reviewerId |-> u, status |-> st, createdAt |-> t])
    /\ pc' = [pc EXCEPT ![p] = "recompute"]
    /\ ret' = [ret EXCEPT ![p] = [NoRet EXCEPT !.inserted = TRUE]]
    /\ UNCHANGED <<created, reviewerIds, creatorId, status, completedAt>>

\* Variant: no reviewer check.
isAuthorizedAny(u) == TRUE

\* The reviewer check of addFeedback, lines 301-307.
isAuthorized(u) == u \in reviewerIds

\* addFeedback, lines 288-322: lookup, reviewer check, insert.
addFeedback(p, u, st, t) ==
    IF ~created THEN Refuse(p, "not_found")
    ELSE IF ~isAuthorized(u) THEN Refuse(p, "not_authorized")
    ELSE InsertFeedback(p, u, st, t)

\* approveReview, lines 350-377: lookup, insert.
approveReview(p, u, t) ==
    IF ~created THEN Refuse(p, "not_found")
    ELSE InsertFeedback(p, u, "approved", t)

\* handleApproveCommand, commands/approve.js lines 83-118: the handler finds
\* the review, checks the reviewer list, and calls approveReview with client.
ApproveCommand(p, u, t) ==
    /\ Enter(p, "approveCommand", u, "approved", TRUE)
    /\ IF ~created THEN Refuse(p, "not_found")
       ELSE IF u \notin reviewerIds THEN Refuse(p, "not_reviewer")
       ELSE approveReview(p, u, t)

\* approve_review button, app.js lines 259-276: approveReview(..., null).
ApproveButton(p, u, t) ==
    /\ Enter(p, "approveButton", u, "approved", FALSE)
    /\ approveReview(p, u, t)

\* review_feedback_modal, app.js lines 390-408:
\* addFeedback(..., "requested_changes", client).
FeedbackModal(p, u, t) ==
    /\ Enter(p, "feedbackModal", u, "requested_changes", TRUE)
    /\ addFeedback(p, u, "requested_changes", t)

\* The exported addFeedback called with any status, with or without client.
AddFeedbackCall(p, u, st, client, t) ==
    /\ Enter(p, "addFeedback", u, st, client)
    /\ addFeedback(p, u, st, t)

\* The exported updateReviewStatus called on its own.
UpdateReviewStatusCall(p, client) ==
    /\ created
    /\ Enter(p, "updateReviewStatus", "none", "none", client)
    /\ pc' = [pc EXCEPT ![p] = "recompute"]
    /\ ret' = [ret EXCEPT ![p] = NoRet]
    /\ UNCHANGED <<store, now>>

B2N(b) == IF b THEN 1 ELSE 0

\* Variant: the creator is told after every approval made with a client.
creatorSvcNotesAlways(c, returned) ==
    B2N(c.entry \in {"approveCommand", "approveButton"} /\ c.client)

\* approveReview lines 386-400: the creator is told when the returned status
\* is not a completion status, a client was passed and the creator is not the
\* approver.
creatorSvcNotes(c, returned) ==
    B2N(/\ c.entry \in {"approveCommand", "approveButton"}
        /\ returned \notin {"approved", "published"}
        /\ c.client
        /\ creatorId # c.user)

\* The handler's own posts after the service call returned success:
\* commands/approve.js lines 137-159, app.js lines 295-311 and 428-436.
channelHdlNotes(c) ==
    B2N(c.entry \in {"approveCommand", "approveButton", "feedbackModal"})

creatorHdlNotes(c) ==
    B2N(c.entry \in {"approveCommand", "approveButton"} /\ creatorId # c.user)

\* updateReviewStatus, lines 419-456: findUnique with the feedbacks, then the
\* decision computed from that read.
ReadReview(p) ==
    /\ pc[p] = "recompute"
    /\ snap' = [snap EXCEPT ![p] = [status |-> status, rows |-> Len(feedbacks),
                                    completedAt |-> completedAt]]
    /\ ret' = [ret EXCEPT ![p].newStatus = newStatus(status, reviewerIds, feedbacks),
                          ![p].statusChanged = statusChanged(status, reviewerIds, feedbacks)]
    /\ pc' = [pc EXCEPT ![p] =
                IF statusChanged(status, reviewerIds, feedbacks) THEN "write" ELSE "reread"]
    /\ UNCHANGED <<store, now, call, sent, solo, other>>

\* Variant: completedAt is written with every status.
writesCompletedAtAlways(ns) == TRUE

\* Line 470: completedAt is written only together with approved.
writesCompletedAt(ns) == ns = "approved"

\* Variant: the status test inverted.
notifiesCompletionInverted(ns, client) == ns # "approved" /\ client

\* Line 478: the completion notification is attempted when approved was
\* written and a client was passed.
notifiesCompletion(ns, client) == ns = "approved" /\ client

\* Lines 461-475: prisma.review.update with the decided status.
WriteStatus(p, t) ==
    /\ pc[p] = "write"
    /\ Clock(t)
    /\ now' = t
    /\ status' = ret[p].newStatus
    /\ completedAt' = IF writesCompletedAt(ret[p].newStatus) THEN t ELSE completedAt
    /\ ret' = [ret EXCEPT ![p].wrote = TRUE, ![p].status = ret[p].newStatus]
    /\ pc' = [pc EXCEPT ![p] =
                IF notifiesCompletion(ret[p].newStatus, call[p].client)
                THEN "notify" ELSE "after"]
    /\ UNCHANGED <<created, reviewerIds, creatorId, feedbacks, call, snap, sent, solo, other>>

\* Lines 503-513: no change decided, the review is read again and returned.
ReRead(p) ==
    /\ pc[p] = "reread"
    /\ ret' = [ret EXCEPT ![p].status = status]
    /\ pc' = [pc EXCEPT ![p] = "after"]
    /\ UNCHANGED <<store, now, call, snap, sent, solo, other>>

\* Lines 478-502: the completion notification to review.channel.
NotifyCompletion(p) ==
    /\ pc[p] = "notify"
    /\ sent' = [sent EXCEPT ![p].completion = @ + 1]
    /\ pc' = [pc EXCEPT ![p] = "after"]
    /\ UNCHANGED <<store, now, call, snap, ret, solo, other>>

\* The rest of the call after updateReviewStatus returned.
Finish(p) ==
    /\ pc[p] = "after"
    /\ sent' = [sent EXCEPT ![p].creatorSvc = @ + creatorSvcNotes(call[p], ret[p].status),
                            ![p].channelHdl = @ + channelHdlNotes(call[p]),
                            ![p].creatorHdl = @ + creatorHdlNotes(call[p])]
    /\ ret' = [ret EXCEPT ![p].result = "success"]
    /\ pc' = [pc EXCEPT ![p] = "done"]
    /\ UNCHANGED <<store, now, call, snap, solo, other>>

\* The steps of a call that is in flight.
Work(p) ==
    \/ ReadReview(p)
    \/ \E t \in Times : WriteStatus(p, t)
    \/ NotifyCompletion(p)
    \/ ReRead(p)
    \/ Finish(p)

Create ==
    \E rids \in ReviewerLists, cid \in Creators, st \in InitialStatusInputs :
        createReview(rids, cid, st)

\* One call at a time, by any user through any entry, on a review created
\* with any status.
NextSeq ==
    \/ Create
    \/ \E u \in Users, t \in Times : ApproveCommand(1, u, t)
    \/ \E u \in Users, t \in Times : ApproveButton(1, u, t)
    \/ \E u \in Users, t \in Times : FeedbackModal(1, u, t)
    \/ \E u \in Users, st \in FeedbackStatuses, c \in BOOLEAN, t \in Times :
          AddFeedbackCall(1, u, st, c, t)
    \/ \E c \in BOOLEAN : UpdateReviewStatusCall(1, c)
    \/ Work(1)

SpecSeq == Init /\ [][NextSeq]_vars

\* The two reviewers of an in_review review, each making calls with a client
\* one after the other, the two interleaved at every store access.
Caller == [p \in Procs |-> IF p = 1 THEN "A" ELSE "B"]

CreateInReview == createReview({"A", "B"}, "X", "in_review")

Next ==
    \/ CreateInReview
    \/ \E p \in Procs, t \in Times : ApproveCommand(p, Caller[p], t)
    \/ \E p \in Procs, t \in Times : FeedbackModal(p, Caller[p], t)
    \/ \E p \in Procs, t \in Times : AddFeedbackCall(p, Caller[p], "approved", TRUE, t)
    \/ \E p \in Procs : Work(p)

Spec == Init /\ [][Next]_vars


\* ------------------------------------- updateReviewStatusManually, /review
completionStatuses == {"approved", "published"}

\* Variant: anyone may override.
mayUpdateAnyone(u) == TRUE

\* Lines 536-542: the creator or a reviewer.
mayUpdate(u) == u = creatorId \/ u \in reviewerIds

\* Variant: any value passes.
isValidStatusAny(ns) == TRUE

\* Lines 544-551.
isValidStatus(ns) == ns \in validStatuses

\* Lines 554-556.
isCompletionStatus(ns) == ns \in completionStatuses
wasCompleted(prev) == prev \in completionStatuses

\* Variant: every completion status counts as a new completion.
isNewCompletionAlways(ns, prev) == isCompletionStatus(ns)

isNewCompletion(ns, prev) == isCompletionStatus(ns) /\ ~wasCompleted(prev)

\* updateReviewStatusManually, lines 523-556: lookup, the two checks, and the
\* flags computed from the review as read.
ManualCall(p, u, ns, client) ==
    /\ Enter(p, "updateReviewStatusManually", u, ns, client)
    /\ IF ~created THEN Refuse(p, "not_found")
       ELSE IF ~mayUpdate(u) THEN Refuse(p, "not_authorized")
       ELSE IF ~isValidStatus(ns) THEN Refuse(p, "invalid_status")
       ELSE /\ pc' = [pc EXCEPT ![p] = "manual"]
            /\ ret' = [ret EXCEPT ![p] = [NoRet EXCEPT !.prev = status,
                                                       !.prevCompletedAt = completedAt]]
            /\ UNCHANGED <<store, now>>

\* Lines 567-582: prisma.review.update with the requested status; completedAt
\* is written whenever the requested status is a completion status.
ManualWrite(p, t) ==
    /\ pc[p] = "manual"
    /\ Clock(t)
    /\ now' = t
    /\ status' = call[p].fbStatus
    /\ completedAt' = IF isCompletionStatus(call[p].fbStatus) THEN t ELSE completedAt
    /\ ret' = [ret EXCEPT ![p].wrote = TRUE, ![p].status = call[p].fbStatus]
    /\ pc' = [pc EXCEPT ![p] =
                IF isNewCompletion(call[p].fbStatus, ret[p].prev) /\ call[p].client
                THEN "notify" ELSE "after"]
    /\ UNCHANGED <<created, reviewerIds, creatorId, feedbacks, call, snap, sent, solo, other>>

\* Variant: the list is not looked at.
hasReviewersAny(rids) == TRUE

\* commands/review.js lines 170-177 (and commands/assign.js lines 584-590):
\* the handler's test before it calls createReview.
hasReviewers(rids) == rids # {}

\* handleReviewCommand, commands/review.js lines 160-196: the reviewer test,
\* then createReview.
ReviewCommand(p, rids, cid, st) ==
    /\ ~created
    /\ Enter(p, "reviewCommand", cid, st, TRUE)
    /\ IF ~hasReviewers(rids) THEN Refuse(p, "no_reviewers")
       ELSE /\ created' = TRUE
            /\ reviewerIds' = rids
            /\ creatorId' = cid
            /\ status' = validInitialStatus(st)
            /\ completedAt' = NoTime
            /\ pc' = [pc EXCEPT ![p] = "done"]
            /\ ret' = [ret EXCEPT ![p] = [NoRet EXCEPT !.result = "success"]]
            /\ UNCHANGED <<feedbacks, now>>

\* One call at a time: /review with any reviewer list, the empty one
\* included, then manual overrides by any user with any status value.
NextManual ==
    \/ \E rids \in ReviewerLists \cup {{}}, cid \in Creators,
          st \in InitialStatusInputs : ReviewCommand(1, rids, cid, st)
    \/ \E u \in Users, ns \in InitialStatusInputs, c \in BOOLEAN :
          ManualCall(1, u, ns, c)
    \/ \E t \in Times : ManualWrite(1, t)
    \/ NotifyCompletion(1)
    \/ Finish(1)

SpecManual == Init /\ [][NextManual]_vars

\* --------------------------------- store failures, notification failures
\* The statuses asked of the manual override where the store may fail.
ManualInputs == {"approved", "draft"}
\* The callers there: the reviewer and another user.
FailUsers == {"A", "B"}
\* The review there: one reviewer, created by someone else, in review.
CreateSingleReviewer == createReview({"A"}, "X", "in_review")

\* The arguments each entry passes to the service.
CallArgs(entry) ==
    IF entry = "addFeedback" THEN FeedbackStatuses
    ELSE IF entry = "approveCommand" THEN {"approved"}
    ELSE ManualInputs

FailEntries == {"addFeedback", "approveCommand", "updateReviewStatusManually"}

\* getReviewById lines 278-284 and getReviews lines 262-265: the error is
\* caught and null or [] is returned, which the callers read as no review.
lookupFailureResult == "not_found"

\* The lookup of the call fails in the store.
LookupFails(p, entry, u, st, client) ==
    /\ Enter(p, entry, u, st, client)
    /\ pc' = [pc EXCEPT ![p] = "done"]
    /\ ret' = [ret EXCEPT ![p] = [NoRet EXCEPT !.result = lookupFailureResult,
                                               !.failedAt = "lookup"]]
    /\ UNCHANGED <<store, now>>

\* prisma.feedback.create throws: the catch of addFeedback (lines 338-344) or
\* of approveReview (lines 406-412) returns the failure.
InsertFails(p, entry, u, st, client) ==
    /\ entry \in {"addFeedback", "approveCommand"}
    /\ created
    /\ Enter(p, entry, u, st, client)
    /\ IF entry = "approveCommand" THEN u \in reviewerIds ELSE isAuthorized(u)
    /\ pc' = [pc EXCEPT ![p] = "done"]
    /\ ret' = [ret EXCEPT ![p] = [NoRet EXCEPT !.result = "error",
                                               !.failedAt = "insert"]]
    /\ UNCHANGED <<store, now>>

\* What the caller gets when updateReviewStatus returned null (lines 516-519):
\* addFeedback returns success with a null review (lines 322-337);
\* approveReview returns a failure (lines 379-384).
resultOnNullReview(entry) == IF entry = "addFeedback" THEN "success" ELSE "error"

\* Variant: after a failed status write the notification is still tried.
onStoreErrorNotifies(at) == IF at \in {"write", "manual"} THEN "notify" ELSE "done"

\* The catch of updateReviewStatus (lines 516-519) and of
\* updateReviewStatusManually (lines 601-607): the function returns at once.
onStoreError(at) == "done"

\* A store operation of updateReviewStatus throws: the read, the update or
\* the second read.  The inserted row stays.
RecomputeFails(p) ==
    /\ pc[p] \in {"recompute", "write", "reread"}
    /\ call[p].entry \in FailEntries
    /\ ret' = [ret EXCEPT ![p].failedAt = pc[p],
                          ![p].result = resultOnNullReview(call[p].entry)]
    /\ pc' = [pc EXCEPT ![p] = onStoreError(pc[p])]
    /\ UNCHANGED <<store, now, call, snap, sent, solo, other>>

\* prisma.review.update of updateReviewStatusManually throws: the catch at
\* lines 601-607 returns the failure.
ManualWriteFails(p) ==
    /\ pc[p] = "manual"
    /\ ret' = [ret EXCEPT ![p].failedAt = "manual", ![p].result = "error"]
    /\ pc' = [pc EXCEPT ![p] = onStoreError(pc[p])]
    /\ UNCHANGED <<store, now, call, snap, sent, solo, other>>

\* Variant: the error of a notification ends the call.
onNotificationErrorRethrow(outcome) == "error"

\* The catch around every notification (lines 396-398, 499-501, 591-594;
\* approve.js lines 145-147 and 157-159; app.js lines 312-314 and 436-438):
\* the error is logged and the call goes on as it would have.
onNotificationError(outcome) == outcome

\* The completion notification is attempted and throws.
NotifyCompletionThrows(p) ==
    /\ pc[p] = "notify"
    /\ sent' = [sent EXCEPT ![p].completion = @ + 1, ![p].threw = TRUE]
    /\ pc' = [pc EXCEPT ![p] = onNotificationError("after")]
    /\ UNCHANGED <<store, now, call, snap, ret, solo, other>>

\* One of the notifications after updateReviewStatus throws.  The button
\* handler posts to the channel and to the creator in one try block, so the
\* creator is not tried after the channel post threw.
FinishThrows(p, who) ==
    /\ pc[p] = "after"
    /\ LET svc == creatorSvcNotes(call[p], ret[p].status)
           chn == channelHdlNotes(call[p])
           crt == IF who = "channelHdl" /\ call[p].entry = "approveButton"
                  THEN 0 ELSE creatorHdlNotes(call[p])
       IN  /\ \/ who = "creatorSvc" /\ svc = 1
              \/ who = "channelHdl" /\ chn = 1
              \/ who = "creatorHdl" /\ crt = 1
           /\ sent' = [sent EXCEPT ![p].creatorSvc = @ + svc,
                                   ![p].channelHdl = @ + chn,
                                   ![p].creatorHdl = @ + crt,
                                   ![p].threw = TRUE]
    /\ ret' = [ret EXCEPT ![p].result = onNotificationError("success")]
    /\ pc' = [pc EXCEPT ![p] = "done"]
    /\ UNCHANGED <<store, now, call, snap, solo, other>>

\* One call at a time on a review with one reviewer; every store operation and
\* every notification may fail.
NextFail ==
    \/ CreateSingleReviewer
    \/ \E u \in FailUsers, st \in FeedbackStatuses, t \in Times :
          AddFeedbackCall(1, u, st, TRUE, t)
    \/ \E u \in FailUsers, t \in Times : ApproveCommand(1, u, t)
    \/ \E u \in FailUsers, ns \in ManualInputs : ManualCall(1, u, ns, TRUE)
    \/ \E t \in Times : ManualWrite(1, t)
    \/ Work(1)
    \/ \E e \in FailEntries, u \in FailUsers :
          \E st \in CallArgs(e) : LookupFails(1, e, u, st, TRUE)
    \/ \E e \in FailEntries, u \in FailUsers :
          \E st \in CallArgs(e) : InsertFails(1, e, u, st, TRUE)
    \/ RecomputeFails(1)
    \/ ManualWriteFails(1)
    \/ NotifyCompletionThrows(1)
    \/ \E who \in {"creatorSvc", "channelHdl", "creatorHdl"} : FinishThrows(1, who)

SpecFail == Init /\ [][NextFail]_vars

\* ------------------------------------- calls by the review's own reviewers
\* The reviewers of the review created by CreateInReview.
OwnReviewers == {"A", "B"}

\* One call at a time, through any entry, by a reviewer of a review created
\* in review.
NextOwn ==
    \/ CreateInReview
    \/ \E u \in OwnReviewers, t \in Times : ApproveCommand(1, u, t)
    \/ \E u \in OwnReviewers, t \in Times : ApproveButton(1, u, t)
    \/ \E u \in OwnReviewers, t \in Times : FeedbackModal(1, u, t)
    \/ \E u \in OwnReviewers, st \in FeedbackStatuses, c \in BOOLEAN, t \in Times :
          AddFeedbackCall(1, u, st, c, t)
    \/ Work(1)

SpecOwn == Init /\ [][NextOwn]_vars

\* ------------------------------------------------------------- getReviews
\* Reviews in the table when it is listed.
NumReviews == 2
ListClients == {"acme", "zeta"}
ListStatuses == {"approved", "in_review"}

\* A stored review: completedAt and the newest Feedback row, when there are
\* any, are not older than the review.
ReviewRows ==
    {r \in [reviewId : {0}, client : ListClients, status : ListStatuses,
            createdAt : Times, completedAt : {NoTime} \cup Times,
            fbAt : {NoTime} \cup Times] :
        /\ r.completedAt = NoTime \/ r.completedAt >= r.createdAt
        /\ r.fbAt = NoTime \/ r.fbAt >= r.createdAt}

Tables ==
    {[i \in 1..NumReviews |-> [rows[i] EXCEPT !.reviewId = i]] :
        rows \in [1..NumReviews -> ReviewRows]}

\* The filters of a call; "none" and NoTime stand for a filter left out.
\* channel, creatorId and reviewerId are equality tests like client.
FilterInputs ==
    [client : {"none", "acme"}, status : {"none", "in_review"},
     activitySince : {NoTime} \cup Times]

\* Lines 166-182: the where clause built from the plain filters.
matchesWhere(r, f) ==
    /\ f.client = "none" \/ r.client = f.client
    /\ f.status = "none" \/ r.status = f.status

\* { gte: activityDate } on a column that may be null.
gte(v, d) == v # NoTime /\ v >= d

\* Lines 189-192: created or completed since the date.
activeSince(r, d) == gte(r.createdAt, d) \/ gte(r.completedAt, d)

\* Lines 199-208: the rows of the first findMany.
firstQuery(tbl, f) ==
    {i \in DOMAIN tbl :
        /\ matchesWhere(tbl[i], f)
        /\ f.activitySince = NoTime \/ activeSince(tbl[i], f.activitySince)}

\* Ascending order of the status strings.
statusRank(st) ==
    CASE st = "approved" -> 1
      [] st = "design" -> 2
      [] st = "draft" -> 3
      [] st = "in_review" -> 4
      [] st = "published" -> 5

\* Lines 201-204: orderBy status asc, createdAt desc.
inOrder(tbl, q) ==
    \A a, b \in DOMAIN q :
        a < b => \/ statusRank(tbl[q[a]].status) < statusRank(tbl[q[b]].status)
                 \/ /\ tbl[q[a]].status = tbl[q[b]].status
                    /\ tbl[q[a]].createdAt >= tbl[q[b]].createdAt

\* The orders in which the ids of S can come back.
SeqsOf(S) ==
    {q \in [1..Cardinality(S) -> S] : \A a, b \in DOMAIN q : a # b => q[a] # q[b]}

\* Lines 218-233: every review of the table with a Feedback row since the date.
reviewsWithRecentFeedback(tbl, d) == {i \in DOMAIN tbl : gte(tbl[i].fbAt, d)}

\* Lines 237-251: the second findMany, by id, without the rows the NOT filter
\* drops.  The filter is evaluated by the database: with nullsDrop a row whose
\* completedAt is null does not satisfy NOT (... OR completedAt >= date).
additionalReviews(tbl, d, nullsDrop) ==
    {i \in reviewsWithRecentFeedback(tbl, d) :
        IF nullsDrop /\ tbl[i].completedAt = NoTime THEN FALSE
        ELSE ~activeSince(tbl[i], d)}

\* getReviews, lines 162-261: the first query in its order, then the
\* additional reviews pushed behind it in the order the database gave them.
getReviews(f, nullsDrop) ==
    /\ \E first \in SeqsOf(firstQuery(reviews, f)) :
          /\ inOrder(reviews, first)
          /\ \E extra \in SeqsOf(IF f.activitySince = NoTime THEN {}
                                 ELSE additionalReviews(reviews, f.activitySince, nullsDrop)) :
                listing' = [filters |-> f, result |-> first \o extra, made |-> TRUE]
    /\ UNCHANGED <<store, now, pc, call, snap, ret, sent, solo, reviews, creating,
                   reminderVars>>

\* Any table of NumReviews reviews.
InitList ==
    /\ InitCalls
    /\ reviews \in Tables
    /\ listing = NoListing
    /\ creating = [c \in Creations |-> NoCreation]
    /\ InitReminders

NextList == \E f \in FilterInputs, nullsDrop \in BOOLEAN : getReviews(f, nullsDrop)

SpecList == InitList /\ [][NextList]_vars

\* ------------------------------------------------- createReview, reviewId
\* Line 135: reviewId is 'review_' + Date.now(), the clock reading in
\* milliseconds, taken when the create call is built.
GenerateReviewId(c, t) ==
    /\ creating[c].pc \in {"idle", "done"}
    /\ Clock(t)
    /\ now' = t
    /\ creating' = [creating EXCEPT ![c] = [pc |-> "insert", reviewId |-> t,
                                            result |-> "none"]]
    /\ UNCHANGED <<store, pc, call, snap, ret, sent, solo, reviews, listing, reminderVars>>

\* Review.reviewId is @unique (schema line 706).
reviewIdTaken(id) == \E i \in DOMAIN reviews : reviews[i].reviewId = id

\* Lines 133-158: prisma.review.create; a reviewId already stored violates
\* the unique constraint, the create throws and createReview rethrows.
InsertReview(c, client, st) ==
    /\ creating[c].pc = "insert"
    /\ IF reviewIdTaken(creating[c].reviewId)
       THEN /\ creating' = [creating EXCEPT ![c].pc = "done", ![c].result = "duplicate"]
            /\ UNCHANGED reviews
       ELSE /\ reviews' = Append(reviews,
                                 [reviewId |-> creating[c].reviewId, client |-> client,
                                  status |-> validInitialStatus(st),
                                  createdAt |-> creating[c].reviewId,
                                  completedAt |-> NoTime, fbAt |-> NoTime])
            /\ creating' = [creating EXCEPT ![c].pc = "done", ![c].result = "created"]
    /\ UNCHANGED <<store, now, pc, call, snap, ret, sent, solo, listing, reminderVars>>

\* Two createReview calls, one after the other or interleaved.
NextCreate ==
    \/ \E c \in Creations, t \in Times : GenerateReviewId(c, t)
    \/ \E c \in Creations, client \in ListClients, st \in InitialStatusInputs :
          InsertReview(c, client, st)

SpecCreate == Init /\ [][NextCreate]_vars

\* ------------------------------------------------------ sendTaskReminders
\* The clock of the reminder job counts half hours: the cron job fires every
\* hour and a run reads new Date() on the hour or within the half hour after.
Hour == 2
MaxRuns == 3
MaxReminders == 2     \* messages counted per task
TaskDeadline == <<3, 5>>

\* Lines 202-209: deadline in (now, now + 1 hour], reminder not yet sent.
isDue(k, n) == TaskDeadline[k] > n /\ TaskDeadline[k] <= n + Hour

\* The tasks of S in the order findMany returns them.
RECURSIVE tasksIn(_, _)
tasksIn(S, k) ==
    IF k > Cardinality(TaskIds) THEN <<>>
    ELSE (IF k \in S THEN <<k>> ELSE <<>>) \o tasksIn(S, k + 1)

\* Lines 192-213: a run starts and reads the tasks that need a reminder.
StartRun(r, late) ==
    /\ job[r].pc \in {"idle", "done"}
    /\ runNo < MaxRuns
    /\ runNo' = runNo + 1
    /\ LET n == Hour * runNo + late
           found == tasksIn({k \in TaskIds : isDue(k, n) /\ ~reminderSent[k]}, 1)
       IN  job' = [job EXCEPT ![r] = [pc |-> IF found = <<>> THEN "done" ELSE "send",
                                     todo |-> found]]
    /\ UNCHANGED <<store, now, pc, call, snap, ret, sent, solo, reviews, listing, creating,
                   reminderSent, reminders>>

\* Lines 238-241: findMany throws, the run ends.
StartRunFails(r) ==
    /\ job[r].pc \in {"idle", "done"}
    /\ runNo < MaxRuns
    /\ runNo' = runNo + 1
    /\ job' = [job EXCEPT ![r] = [pc |-> "done", todo |-> <<>>]]
    /\ UNCHANGED <<store, now, pc, call, snap, ret, sent, solo, reviews, listing, creating,
                   reminderSent, reminders>>

\* The for loop goes on to the next task, or ends.
nextTask(j) ==
    [pc |-> IF Tail(j.todo) = <<>> THEN "done" ELSE "send", todo |-> Tail(j.todo)]

\* Lines 217-222: the reminder is posted to the assignee.
SendReminder(r) ==
    /\ job[r].pc = "send"
    /\ reminders[Head(job[r].todo)] < MaxReminders
    /\ reminders' = [reminders EXCEPT ![Head(job[r].todo)] = @ + 1]
    /\ job' = [job EXCEPT ![r].pc = "mark"]
    /\ UNCHANGED <<store, now, pc, call, snap, ret, sent, solo, reviews, listing, creating,
                   reminderSent, runNo>>

\* Lines 232-234: postMessage throws, the task is skipped.
SendReminderFails(r) ==
    /\ job[r].pc = "send"
    /\ job' = [job EXCEPT ![r] = nextTask(job[r])]
    /\ UNCHANGED <<store, now, pc, call, snap, ret, sent, solo, reviews, listing, creating,
                   reminderSent, reminders, runNo>>

\* Lines 227-230: reminderSent is written after the message.
MarkReminderSent(r) ==
    /\ job[r].pc = "mark"
    /\ reminderSent' = [reminderSent EXCEPT ![Head(job[r].todo)] = TRUE]
    /\ job' = [job EXCEPT ![r] = nextTask(job[r])]
    /\ UNCHANGED <<store, now, pc, call, snap, ret, sent, solo, reviews, listing, creating,
                   reminders, runNo>>

\* Lines 232-234: the update throws, the flag stays false.
MarkReminderSentFails(r) ==
    /\ job[r].pc = "mark"
    /\ job' = [job EXCEPT ![r] = nextTask(job[r])]
    /\ UNCHANGED <<store, now, pc, call, snap, ret, sent, solo, reviews, listing, creating,
                   reminderSent, reminders, runNo>>

\* app.js lines 619-623: the hourly job; a run is not awaited by the next.
NextRemind ==
    \/ \E r \in Runs, late \in {0, 1} : StartRun(r, late)
    \/ \E r \in Runs : StartRunFails(r)
    \/ \E r \in Runs : SendReminder(r)
    \/ \E r \in Runs : SendReminderFails(r)
    \/ \E r \in Runs : MarkReminderSent(r)
    \/ \E r \in Runs : MarkReminderSentFails(r)

SpecRemind == Init /\ [][NextRemind]_vars

\* ------------------------------------------------------------- properties
\* A reviewer's latest feedback by createdAt, stated without the scan of
\* updateReviewStatus: the statuses of the reviewer's rows that carry the
\* reviewer's greatest createdAt.  The latest feedback "is st" when those rows
\* all have status st (rows with equal createdAt that disagree decide nothing
\* here).
RowsOf(r, fbs) == {i \in 1..Len(fbs) : fbs[i].reviewerId = r}

LatestStatuses(r, fbs) ==
    {fbs[i].status : i \in {j \in RowsOf(r, fbs) :
                              \A k \in RowsOf(r, fbs) : fbs[k].createdAt <= fbs[j].createdAt}}

LatestIs(r, fbs, st) == LatestStatuses(r, fbs) = {st}

EveryReviewerApproved(rids, fbs) == \A r \in rids : LatestIs(r, fbs, "approved")

SomeReviewerRequestsChanges(rids, fbs) ==
    \E r \in rids : LatestIs(r, fbs, "requested_changes")

\* The rows a call's updateReviewStatus read, and the calls that have come
\* that far or to their end.
ReadRows(p) == SubSeq(feedbacks, 1, snap[p].rows)
HasRead(p) == snap[p].status # "none"
Succeeded(p) == pc[p] = "done" /\ ret[p].result = "success"
Quiet == \A p \in Procs : ~InFlight(p)

\* C1: every stored Feedback row was authored by a member of the review's
\* reviewer list, whichever entry stored it.
C1_FeedbackByReviewersOnly ==
    \A i \in 1..Len(feedbacks) : feedbacks[i].reviewerId \in reviewerIds

\* C2: once no call is in flight, the stored status is the one the
\* recomputation derives from the complete history: one more recomputation
\* would leave the status as it is.
C2_Converged ==
    (created /\ Quiet) => newStatus(status, reviewerIds, feedbacks) = status

\* C3: an approval handled on its own for an in_review review leaves the
\* review in_review with no completion notification while some reviewer's
\* latest feedback is not approved, and otherwise makes it approved with
\* completedAt set and exactly one completion notification attempted.
C3_CompletionNotifiedOnce ==
    \A p \in Procs :
        (/\ Succeeded(p)
         /\ call[p].entry \in {"approveCommand", "approveButton"}
         /\ snap[p].status = "in_review")
        => /\ EveryReviewerApproved(reviewerIds, feedbacks)
              => /\ status = "approved"
                 /\ completedAt # NoTime
                 /\ sent[p].completion = 1
           /\ (\E r \in reviewerIds : "approved" \notin LatestStatuses(r, feedbacks))
              => /\ status = "in_review"
                 /\ sent[p].completion = 0

\* C4: a call made with a client whose updateReviewStatus wrote approved has
\* attempted the completion notification by the time updateReviewStatus
\* returns, under every interleaving.
C4_CompletionAttempted ==
    \A p \in Procs :
        (/\ pc[p] \in {"after", "done"}
         /\ call[p].client
         /\ ret[p].wrote
         /\ ret[p].newStatus = "approved")
        => sent[p].completion >= 1

\* Two interleaved calls both wrote approved, and each attempted the
\* completion notification: the duplicate.
C4_Witness ==
    \A p \in Procs :
        /\ Succeeded(p) /\ ~solo[p] /\ call[p].client
        /\ ret[p].wrote /\ ret[p].newStatus = "approved"
        /\ sent[p].completion = 1

\* C5: when the review read is in_review and every reviewer's latest
\* feedback is approved, the recomputation decides approved and a change.
C5_AllApprovedGivesApproved ==
    \A p \in Procs :
        (/\ HasRead(p)
         /\ snap[p].status = "in_review"
         /\ EveryReviewerApproved(reviewerIds, ReadRows(p)))
        => ret[p].newStatus = "approved" /\ ret[p].statusChanged

\* The case with a superseded change request in the history.
C5_Witness ==
    \E p \in Procs :
        /\ HasRead(p) /\ snap[p].status = "in_review"
        /\ reviewerIds = {"A", "B"}
        /\ EveryReviewerApproved(reviewerIds, ReadRows(p))
        /\ \E i \in 1..snap[p].rows : feedbacks[i].status = "requested_changes"
        /\ ret[p].newStatus = "approved"

\* C6: when some reviewer's latest feedback is requested_changes, the
\* recomputation decides in_review whatever status it read.
C6_ChangeRequestGivesInReview ==
    \A p \in Procs :
        (HasRead(p) /\ SomeReviewerRequestsChanges(reviewerIds, ReadRows(p)))
        => ret[p].newStatus = "in_review"

\* The case of a review that was not approved or in_review.
C6_Witness ==
    \E p \in Procs :
        /\ Succeeded(p) /\ HasRead(p)
        /\ snap[p].status = "published"
        /\ SomeReviewerRequestsChanges(reviewerIds, ReadRows(p))
        /\ status = "in_review"

\* C7: the recomputation decides a change (and so writes the review) only
\* when the status it derived differs from the status it read.
C7_ChangedOnlyWhenDifferent ==
    \A p \in Procs :
        (HasRead(p) /\ ret[p].statusChanged) => ret[p].newStatus # snap[p].status

\* When every reviewer's latest feedback is determined by createdAt, the
\* recomputation of an in_review or approved review decides by those latest
\* entries alone.
LatestDecides ==
    \A p \in Procs :
        (/\ HasRead(p)
         /\ snap[p].status \in {"in_review", "approved"}
         /\ \A r \in reviewerIds :
               \E st \in FeedbackStatuses : LatestIs(r, ReadRows(p), st))
        => ret[p].newStatus =
              IF EveryReviewerApproved(reviewerIds, ReadRows(p))
              THEN "approved" ELSE "in_review"

\* C8: the recomputation counts each reviewer by the latest feedback by
\* createdAt (a change request followed by an approval counts as approved,
\* an approval followed by a change request as a change request), and no
\* step removes or alters a stored Feedback row.
C8_LatestCounts ==
    [][/\ \A i \in 1..Len(feedbacks) :
             i <= Len(feedbacks') /\ feedbacks'[i] = feedbacks[i]
       /\ LatestDecides']_vars

\* A reviewer asked for changes and approved later: counted as approved, the
\* change request still stored.
C8_Witness ==
    \E p \in Procs :
        /\ Succeeded(p) /\ HasRead(p)
        /\ reviewerIds = {"A"}
        /\ Len(feedbacks) = 2
        /\ feedbacks[1] = [reviewerId |-> "A", status |-> "requested_changes", createdAt |-> 1]
        /\ feedbacks[2] = [reviewerId |-> "A", status |-> "approved", createdAt |-> 2]
        /\ snap[p].status = "in_review"
        /\ status = "approved"

\* C9: the recomputation writes a status only to a review it read as
\* in_review or approved, and writes only in_review or approved.
C9_OnlyInReviewAndApproved ==
    \A p \in Procs :
        (HasRead(p) /\ ret[p].wrote)
        => /\ snap[p].status \in {"in_review", "approved"}
           /\ ret[p].newStatus \in {"in_review", "approved"}

\* C10: a change request that is its reviewer's latest feedback, handled on
\* its own for an approved review, makes the review in_review, leaves
\* completedAt as it was read, and attempts no completion notification.
C10_ReopenKeepsCompletedAt ==
    \A p \in Procs :
        (/\ Succeeded(p)
         /\ call[p].fbStatus = "requested_changes"
         /\ snap[p].status = "approved"
         /\ LatestIs(call[p].user, feedbacks, "requested_changes"))
        => /\ status = "in_review"
           /\ completedAt = snap[p].completedAt
           /\ sent[p].completion = 0

\* The reopening happens at a later clock reading than the completion.
C10_Witness ==
    \E p \in Procs :
        /\ Succeeded(p)
        /\ call[p].fbStatus = "requested_changes"
        /\ snap[p].status = "approved"
        /\ LatestIs(call[p].user, feedbacks, "requested_changes")
        /\ status = "in_review"
        /\ completedAt # NoTime /\ completedAt < now

\* A step in which call slot p takes a new call.
Begins(p) ==
    /\ pc[p] \in {"idle", "done"}
    /\ <<pc[p], call[p], ret[p]>>' # <<pc[p], call[p], ret[p]>>

ManualDone(p) ==
    /\ Succeeded(p)
    /\ call[p].entry = "updateReviewStatusManually"

\* The override is a new completion: the requested status is approved or
\* published and the status before it was neither.
NewCompletion(p) ==
    /\ call[p].fbStatus \in {"approved", "published"}
    /\ ret[p].prev \notin {"approved", "published"}

\* C11: a review whose status is approved or published has a completedAt,
\* however it got that status, and completedAt becomes non-null only in a
\* step that moves the status into approved or published.
C11_CompletedAtFollowsStatus ==
    [][/\ (created' /\ status' \in {"approved", "published"}) => completedAt' # NoTime
       /\ (completedAt = NoTime /\ completedAt' # NoTime)
          => /\ status' \in {"approved", "published"}
             /\ status \notin {"approved", "published"}]_vars

\* C12: after a manual override completedAt is the time of the override when
\* the override is a new completion, and is what it was before otherwise.
C12_CompletedAtOnNewCompletionOnly ==
    \A p \in Procs :
        ManualDone(p)
        => completedAt = IF NewCompletion(p) THEN now ELSE ret[p].prevCompletedAt

\* C13 as stated: a manual override attempts one completion notification
\* when it is a new completion and none otherwise.
C13_NotifiedOnNewCompletion ==
    \A p \in Procs :
        ManualDone(p)
        => sent[p].completion = IF NewCompletion(p) THEN 1 ELSE 0

\* C13 amended: a manual override attempts one completion notification when
\* it is a new completion and a client was passed, and none otherwise.
C13_NotifiedOnNewCompletionWithClient ==
    \A p \in Procs :
        ManualDone(p)
        => sent[p].completion = IF NewCompletion(p) /\ call[p].client THEN 1 ELSE 0

C13_Witness ==
    \E p \in Procs :
        /\ ManualDone(p) /\ NewCompletion(p) /\ call[p].client
        /\ call[p].fbStatus = "published"
        /\ status = "published"
        /\ sent[p].completion = 1

\* C14: a manual override by a user who is neither the creator nor a
\* reviewer ends at once as not authorized, whatever status it asks for,
\* with the review as it was and no notification.
C14_OutsiderRefused ==
    [][\A p \in Procs :
          (/\ Begins(p)
           /\ created
           /\ call'[p].entry = "updateReviewStatusManually"
           /\ call'[p].user # creatorId
           /\ call'[p].user \notin reviewerIds)
          => /\ pc'[p] = "done"
             /\ ret'[p].result = "not_authorized"
             /\ store' = store
             /\ sent'[p] = NoSent]_vars

C14_Witness ==
    \E p \in Procs :
        /\ pc[p] = "done"
        /\ call[p].entry = "updateReviewStatusManually"
        /\ call[p].user \notin reviewerIds \cup {creatorId}
        /\ call[p].fbStatus = "approved"
        /\ ret[p].result = "not_authorized"
        /\ status = "in_review" /\ completedAt = NoTime

\* C15: a manual override by the creator or a reviewer that asks for a value
\* outside the five statuses ends at once as invalid, with the review as it
\* was.
C15_InvalidStatusRefused ==
    [][\A p \in Procs :
          (/\ Begins(p)
           /\ created
           /\ call'[p].entry = "updateReviewStatusManually"
           /\ (call'[p].user = creatorId \/ call'[p].user \in reviewerIds)
           /\ call'[p].fbStatus \notin
                 {"draft", "design", "in_review", "approved", "published"})
          => /\ pc'[p] = "done"
             /\ ret'[p].result = "invalid_status"
             /\ store' = store
             /\ sent'[p] = NoSent]_vars

C15_Witness ==
    \E p \in Procs :
        /\ pc[p] = "done"
        /\ call[p].entry = "updateReviewStatusManually"
        /\ call[p].user \in reviewerIds
        /\ call[p].fbStatus = "bogus"
        /\ ret[p].result = "invalid_status"
        /\ status = "approved"

\* C16: addFeedback for a user outside the reviewer list ends at once as not
\* authorized: no Feedback row, status and completedAt as they were, no
\* notification.
C16_NonReviewerRefused ==
    [][\A p \in Procs :
          (/\ Begins(p)
           /\ created
           /\ call'[p].entry \in {"addFeedback", "feedbackModal"}
           /\ call'[p].user \notin reviewerIds)
          => /\ pc'[p] = "done"
             /\ ret'[p].result = "not_authorized"
             /\ ~ret'[p].inserted
             /\ store' = store
             /\ sent'[p] = NoSent]_vars

C16_Witness ==
    \E p \in Procs :
        /\ pc[p] = "done"
        /\ call[p].entry = "addFeedback"
        /\ call[p].user = "X"
        /\ call[p].fbStatus = "approved"
        /\ ret[p].result = "not_authorized"
        /\ Len(feedbacks) = 1

C18_NotificationErrorsSwallowed ==
    [][\A p \in Procs :
          (sent'[p].threw /\ (sent'[p] # sent[p] \/ pc'[p] # pc[p]))
          => /\ store' = store
             /\ ret'[p].inserted = ret[p].inserted
             /\ ret'[p].status = ret[p].status
             /\ pc'[p] \in {"after", "done"}
             /\ pc'[p] = "done" => ret'[p].result = "success"]_vars

C18_Witness ==
    \E p \in Procs :
        /\ pc[p] = "done" /\ sent[p].threw
        /\ call[p].entry = "approveCommand"
        /\ ret[p].result = "success" /\ ret[p].wrote
        /\ sent[p].completion = 1
        /\ status = "approved" /\ completedAt # NoTime

\* C19: a call of addFeedback or approveReview in which a store operation
\* failed does not end as a success and has added no Feedback row.
C19_StoreFailureAborts ==
    \A p \in Procs :
        (/\ pc[p] = "done"
         /\ call[p].entry \in {"addFeedback", "approveCommand"}
         /\ ret[p].failedAt # "none")
        => ret[p].result # "success" /\ ~ret[p].inserted

\* C20: a call whose lookup failed in the store does not end as not found.
C20_LookupFailureDistinct ==
    \A p \in Procs :
        (pc[p] = "done" /\ ret[p].failedAt = "lookup") => ret[p].result # "not_found"

\* C21: an approve call that succeeded has attempted the creator
\* notification of approveReview once when it was made with a client, the
\* status it leaves is neither approved nor published and the creator is not
\* the approver, and not at all otherwise.
C21_CreatorToldWhenNotComplete ==
    \A p \in Procs :
        (Succeeded(p) /\ call[p].entry \in {"approveCommand", "approveButton"})
        => sent[p].creatorSvc =
              IF /\ call[p].client
                 /\ status \notin {"approved", "published"}
                 /\ creatorId # call[p].user
              THEN 1 ELSE 0

C21_Witness ==
    \E p \in Procs :
        /\ Succeeded(p) /\ call[p].entry = "approveCommand"
        /\ call[p].user = "A" /\ creatorId = "X"
        /\ status = "in_review"
        /\ sent[p].creatorSvc = 1

\* C22: the /approve handler together with its approveReview call sends the
\* origin channel at most one notification and the creator at most one.
C22_OneNotificationPerRecipient ==
    \A p \in Procs :
        (Succeeded(p) /\ call[p].entry = "approveCommand")
        => /\ sent[p].completion + sent[p].channelHdl <= 1
           /\ sent[p].creatorSvc + sent[p].creatorHdl <= 1

\* C26: a stored review's status is always one of the five; a creation
\* stores a valid initial status as given and in_review for any other value,
\* and succeeds.
C26_StatusAlwaysValid ==
    [][/\ created' => status' \in {"draft", "design", "in_review", "approved", "published"}
       /\ \A p \in Procs :
             (Begins(p) /\ call'[p].entry = "reviewCommand" /\ reviewerIds' # {})
             => /\ created' /\ ret'[p].result = "success"
                /\ status' = IF call'[p].fbStatus \in
                                   {"draft", "design", "in_review", "approved", "published"}
                             THEN call'[p].fbStatus ELSE "in_review"]_vars

C26_Witness ==
    \E p \in Procs :
        /\ pc[p] = "done" /\ call[p].entry = "reviewCommand"
        /\ call[p].fbStatus = "bogus"
        /\ ret[p].result = "success"
        /\ created /\ status = "in_review"

\* The status of reviewer r's latest row in fbs, where of two rows with the
\* same createdAt the one scanned later is the later one.
LaterScannedStatus(r, fbs) ==
    LET j == CHOOSE j \in RowsOf(r, fbs) :
                 \A k \in RowsOf(r, fbs) :
                     \/ fbs[k].createdAt < fbs[j].createdAt
                     \/ fbs[k].createdAt = fbs[j].createdAt /\ k <= j
    IN  IF RowsOf(r, fbs) = {} THEN "none" ELSE fbs[j].status

\* The status the recomputation decides from status cur and rows fbs when the
\* later-scanned row wins a tie.
LaterScannedDecision(cur, fbs) ==
    IF cur = "in_review" /\ \A r \in reviewerIds : LaterScannedStatus(r, fbs) = "approved"
    THEN "approved"
    ELSE IF \E r \in Users : LaterScannedStatus(r, fbs) = "requested_changes"
    THEN "in_review"
    ELSE cur

\* C27: the recomputation decides as if, of a reviewer's rows with equal
\* createdAt, the one scanned later were the latest.
C27_TieKeepsLaterScanned ==
    \A p \in Procs :
        HasRead(p) => ret[p].newStatus = LaterScannedDecision(snap[p].status, ReadRows(p))

\* C28: after a completed call the status is approved when every reviewer's
\* latest feedback is approved, and in_review otherwise.
C28_ApprovedIffAllLatestApproved ==
    \A p \in Procs :
        Succeeded(p)
        => status = IF \A r \in reviewerIds : LaterScannedStatus(r, feedbacks) = "approved"
                    THEN "approved" ELSE "in_review"

\* C29: a completion notification is attempted only by a call that has
\* written approved or published to the store, after that write; a call whose
\* status write failed ends without a completion notification.
C29_NotifiedAfterWrite ==
    [][\A p \in Procs :
          /\ sent'[p].completion > sent[p].completion
             => /\ ret[p].wrote /\ ret[p].failedAt = "none"
                /\ ret[p].status \in {"approved", "published"}
                /\ status = ret[p].status
          /\ (pc'[p] = "done" /\ ret'[p].failedAt \in {"write", "manual"})
             => sent'[p].completion = 0]_vars

C29_Witness ==
    \E p \in Procs :
        /\ pc[p] = "done" /\ call[p].entry = "updateReviewStatusManually"
        /\ ret[p].wrote /\ ret[p].failedAt = "none"
        /\ sent[p].completion = 1
        /\ status = "approved"

\* C23: a listing with an activity-since date returns, each once, the
\* reviews that pass the other filters and were created, completed or given
\* feedback at or after the date.
C23_ActivitySinceExact ==
    (listing.made /\ listing.filters.activitySince # NoTime)
    => LET f == listing.filters
           d == f.activitySince
           wanted == {i \in DOMAIN reviews :
                        /\ f.client = "none" \/ reviews[i].client = f.client
                        /\ f.status = "none" \/ reviews[i].status = f.status
                        /\ \/ reviews[i].createdAt >= d
                           \/ reviews[i].completedAt # NoTime /\ reviews[i].completedAt >= d
                           \/ reviews[i].fbAt # NoTime /\ reviews[i].fbAt >= d}
       IN  /\ {listing.result[k] : k \in DOMAIN listing.result} = wanted
           /\ Len(listing.result) = Cardinality(wanted)

\* C24: every listing is sorted by status ascending and, within a status, by
\* createdAt descending.
C24_ListingSorted ==
    listing.made
    => \A a, b \in DOMAIN listing.result :
          a < b
          => LET x == reviews[listing.result[a]]
                 y == reviews[listing.result[b]]
             IN  \/ statusRank(x.status) < statusRank(y.status)
                 \/ x.status = y.status /\ x.createdAt >= y.createdAt

\* C25: no createReview call fails on its generated reviewId, and the stored
\* reviewIds differ from each other.
C25_ReviewIdsNeverCollide ==
    /\ \A c \in Creations : creating[c].result # "duplicate"
    /\ \A i, j \in DOMAIN reviews : i # j => reviews[i].reviewId # reviews[j].reviewId

\* C30: each task is sent at most one deadline reminder.
C30_OneReminderPerTask ==
    \A k \in TaskIds : reminders[k] <= 1

====
